---- MODULE Spec2Model ----
(***************************************************************************)
(* Model of the scraping orchestration engine of the advanced scraper      *)
(* server (src/unnamed/part_003): the task registry activeSessions, the    *)
(* FIFO taskQueue with its admission loop processTaskQueue, the ScraperTask *)
(* controller startScraping (page loop, detection backoff, enrichment pass, *)
(* persistence, catch/finally) and the inbound WebSocket commands.          *)
(*                                                                         *)
(* Every await of the controller is a step of its own (field pc), so that   *)
(* commands interleave with a running controller exactly at the points     *)
(* where the event loop can run them.                                       *)
(***************************************************************************)
EXTENDS Integers, Sequences, FiniteSets, TLC

\* ---------------------------------------------------------------- bounds
MaxTasks == 3            \* ScraperTask objects ever constructed (Spec)
MaxMessages == 3         \* inbound messages and connection events handled (Spec)
MaxPages == 2            \* largest totalPages a first page yields (Spec)
TaskMessages == 3        \* inbound messages and connection events handled (SpecTask)
TaskPages == 3           \* largest totalPages a first page yields (SpecTask)
EmptyRunPages == 10      \* longest listing in which pages may come back empty (SpecPages)
MaxRetryCount == 5       \* largest retryCount handleRateLimit is evaluated at
BatchTasks == 2          \* ScraperTask objects ever constructed (SpecBatch)
BatchMessages == 3       \* inbound messages and connection events handled (SpecBatch)
BatchPages == 2          \* largest totalPages a first page yields (SpecBatch)
FairPages == 2           \* largest totalPages a first page yields (SpecTaskFair)
NodeCalls == 2           \* calls of scrapeUrl on the instance (SpecNode)
NodePages == 2           \* largest options.maxPages of a call (SpecNode)

\* ------------------------------------------------------ program constants
MAX_CONCURRENT_BROWSERS == 1
FirstPageRetries == 3
LateEmptyPageLimit == 3 + 1   \* a loop that gives up one empty page later
EmptyPageLimit == 3
DefaultItemsPerPage == 60
DefaultMaxPages == 100
BotDetectWait == 120000  \* ms waited after a detection signal
Undefined == -1          \* an option the client did not send
NaN == -1                \* Math.min(n, undefined); every comparison with it is false

\* ------------------------------------------------------------ input sets
PageResults == {<<>>, <<1>>, <<2, 2>>}            \* what extractProducts returns
NavOutcomes == {"ok", "blockedUrl", "blockedTitle", "throw"}
TotalResultsSet == {0, 61, 121}                   \* parsed heading counts
ProductCountSet == {0, 1}                         \* product elements on page 1
MaxPagesSet == {0, 1}                             \* options.maxPages (0 = all pages)
OptionSet == [removeDuplicates : BOOLEAN, extractEAN : BOOLEAN, maxPages : MaxPagesSet,
              itemsPerPage : {0}]                 \* itemsPerPage 0: not given
DetailOutcomes == {"found", "none", "error", "crash"}
PagesTotals == {0, 1, 60, 61, 185, 450}           \* parsed heading counts (SpecPages)
PagesCounts == {0, 1, 5}                          \* product elements on page 1 (SpecPages)
PagesMaxPages == {Undefined, 0, 2, 9}             \* options.maxPages (SpecPages)
PagesItemsPerPage == {0, 50}                      \* options.itemsPerPage (SpecPages)
PagesOptions == [removeDuplicates : {TRUE}, extractEAN : {FALSE},
                 maxPages : PagesMaxPages, itemsPerPage : PagesItemsPerPage]
NodeListings == {<<>>, <<1>>, <<1, 1>>, <<1, 2>>, <<2, 3>>}
                                                  \* what extractProductsFromPage returns

VARIABLES
    tasks,               \* every ScraperTask object constructed so far, by allocation order
    activeSessions,      \* Map taskId -> ScraperTask (here: index into tasks)
    taskQueue,           \* array of ScraperTask (indices), FIFO
    activeBrowserCount,  \* let activeBrowserCount
    connOpen,            \* a client connection is open
    clock,               \* last value Date.now() returned
    msgs,                \* inbound messages and connection events so far: how many a
                         \* handler took (handled) and how many matched no case (ignored)
    scraper              \* the NodeEbayScraper instance of node_scraper.js

server == <<tasks, activeSessions, taskQueue, activeBrowserCount, connOpen, clock, msgs>>
vars == <<tasks, activeSessions, taskQueue, activeBrowserCount, connOpen, clock, msgs,
          scraper>>

Objs == 1..Len(tasks)

\* Update types recorded in a task's trace, beside the calls of saveResults.
Logged == {"stopped", "complete", "error", "files_saved"}

\* ----------------------------------------------------------- ScraperTask
\* new ScraperTask(id, url, options, ws)
NewTask(id, options) ==
    [ id |-> id, options |-> options, ws |-> TRUE, browser |-> "null",
      isRunning |-> FALSE, isPaused |-> FALSE, products |-> <<>>, seenItems |-> {},
      currentPage |-> 0, totalPages |-> 0, emptyPageCount |-> 0,
      pageInfo |-> [totalResults |-> 0, productCount |-> 0], landed |-> "none",
      retryCount |-> 0, waits |-> <<>>,
      pc |-> "queued", page |-> 0, retries |-> 0, i |-> 0, totalItems |-> 0,
      trace |-> <<>>, out |-> <<>>, created |-> FALSE ]

\* a handler or a controller step starts to run on the task: out collects the
\* updates this run sends
Begin(task) == [task EXCEPT !.out = <<>>]

\* sendUpdate(type, data): the trace records the call; the message reaches the
\* client when the task's socket is open (field ws)
sendUpdate(task, type) ==
    [task EXCEPT !.out = Append(@, type),
                 !.trace = IF type \in Logged THEN Append(@, type) ELSE @]

\* getState()
getState(task) ==
    [ id |-> task.id, options |-> task.options, isRunning |-> task.isRunning,
      currentPage |-> task.currentPage, totalPages |-> task.totalPages,
      productsCount |-> Len(task.products),
      status |-> IF task.isRunning THEN "running" ELSE "stopped",
      isPaused |-> task.isPaused ]

\* cleanup(): isRunning = false; browser.close() when a browser exists
cleanup(task) ==
    [task EXCEPT !.isRunning = FALSE,
                 !.browser = IF @ = "null" THEN "null" ELSE "closed"]

\* stop()
stop(task) ==
    cleanup(sendUpdate([Begin(task) EXCEPT !.isRunning = FALSE], "stopped"))

\* pause() / resume()
pause(task) == sendUpdate([Begin(task) EXCEPT !.isPaused = TRUE], "paused")
resume(task) == sendUpdate([Begin(task) EXCEPT !.isPaused = FALSE], "resumed")

\* startScraping(), the synchronous part before the first await
startScraping(task) ==
    sendUpdate([Begin(task) EXCEPT !.isRunning = TRUE, !.pc = "init"], "scraping")

\* ------------------------------------------------------------- scheduler
\* processTaskQueue(): the while loop; .finally is the action Finish below
RECURSIVE processTaskQueue(_, _, _)
processTaskQueue(ts, q, c) ==
    IF c < MAX_CONCURRENT_BROWSERS /\ Len(q) > 0
    THEN processTaskQueue([ts EXCEPT ![Head(q)] = startScraping(@)], Tail(q), c + 1)
    ELSE [tasks |-> ts, taskQueue |-> q, activeBrowserCount |-> c]

\* new NodeEbayScraper(options); pc is the await scrapeUrl() stands at, calls
\* counts the calls so far, repeated records that a page listed an item twice
NodeEbayScraper ==
    [ allProducts |-> <<>>, seenItems |-> {}, pc |-> "idle", currentPage |-> 0,
      maxPages |-> 0, extractEAN |-> FALSE, pageProducts |-> 0, newProducts |-> <<>>,
      i |-> 0, calls |-> 0, repeated |-> FALSE ]

Init ==
    /\ tasks = <<>>
    /\ activeSessions = <<>>
    /\ taskQueue = <<>>
    /\ activeBrowserCount = 0
    /\ connOpen = TRUE
    /\ clock = 0
    /\ msgs = [handled |-> 0, ignored |-> 0]
    /\ scraper = NodeEbayScraper

\* taskQueue.indexOf(task) > -1 ; taskQueue.splice(queueIndex, 1)
InQueue(q, o) == \E k \in 1..Len(q) : q[k] = o
Splice(q, o) == SelectSeq(q, LAMBDA x : x # o)

\* wss.on('connection')
Connect ==
    /\ ~connOpen
    /\ connOpen' = TRUE
    /\ UNCHANGED <<tasks, activeSessions, taskQueue, activeBrowserCount, clock>>

\* ws.on('close'): cleanup() of every registered task of this socket
Close ==
    /\ connOpen
    /\ connOpen' = FALSE
    /\ tasks' = [o \in Objs |->
                   IF ~tasks[o].ws THEN tasks[o]
                   ELSE IF \E x \in DOMAIN activeSessions : activeSessions[x] = o
                        THEN [cleanup(Begin(tasks[o])) EXCEPT !.ws = FALSE]
                        ELSE [tasks[o] EXCEPT !.ws = FALSE]]
    /\ UNCHANGED <<activeSessions, taskQueue, activeBrowserCount, clock>>

\* case 'start_multi': urls.forEach(...) then processTaskQueue(). The filter
\* accepts n lines; bad is 0, or the position of the first accepted line that
\* new URL() rejects: extractSearchTerm() throws on it after the task has been
\* constructed and registered, the forEach ends there and processTaskQueue() is
\* not reached. The rejection of the handler's promise is handled nowhere; the
\* server is taken to keep running (a runtime that ends the process on it stops
\* in the state this step leaves). Field created records that task_created was
\* sent for the task.
StartMulti(n, bad, options, now) ==
    /\ connOpen
    \* a later clock value differs observably only when an id carries the current one
    /\ now = clock \/ \E o \in Objs : tasks[o].id[1] = clock
    /\ LET base == Len(tasks)
           newId(k) == <<now, k>>
           made == IF bad = 0 THEN n ELSE bad
           pushed == IF bad = 0 THEN n ELSE bad - 1
           created == [k \in 1..made |->
                         IF k <= pushed
                         THEN sendUpdate([NewTask(newId(k - 1), options)
                                            EXCEPT !.created = TRUE], "queued")
                         ELSE NewTask(newId(k - 1), options)]
           ids == {newId(k - 1) : k \in 1..made}
           sessions == [x \in DOMAIN activeSessions \cup ids |->
                           IF x \in ids THEN base + x[2] + 1 ELSE activeSessions[x]]
           queue == taskQueue \o [k \in 1..pushed |-> base + k]
           r == IF bad = 0
                THEN processTaskQueue(tasks \o created, queue, activeBrowserCount)
                ELSE [tasks |-> tasks \o created, taskQueue |-> queue,
                      activeBrowserCount |-> activeBrowserCount]
       IN /\ activeSessions' = sessions
          /\ tasks' = r.tasks
          /\ taskQueue' = r.taskQueue
          /\ activeBrowserCount' = r.activeBrowserCount
    /\ clock' = now
    /\ UNCHANGED connOpen

\* a reconnect that starts the admission count afresh
ReconnectResetsCount ==
    /\ connOpen
    /\ tasks' = [o \in Objs |->
                   IF \E x \in DOMAIN activeSessions : activeSessions[x] = o
                   THEN [tasks[o] EXCEPT !.ws = TRUE, !.out = <<"reconnected">>]
                   ELSE tasks[o]]
    /\ activeBrowserCount' = 0
    /\ UNCHANGED <<activeSessions, taskQueue, connOpen, clock>>

\* case 'reconnect': for every registered task, task.setWebSocket(ws) and a
\* 'reconnected' update with task.getState(), sent on the socket directly
Reconnect ==
    /\ connOpen
    /\ tasks' = [o \in Objs |->
                   IF \E x \in DOMAIN activeSessions : activeSessions[x] = o
                   THEN [tasks[o] EXCEPT !.ws = TRUE, !.out = <<"reconnected">>]
                   ELSE tasks[o]]
    /\ UNCHANGED <<activeSessions, taskQueue, activeBrowserCount, connOpen, clock>>

\* case 'pause_task'
PauseTask(x) ==
    /\ connOpen
    /\ x \in DOMAIN activeSessions
    /\ tasks' = [tasks EXCEPT ![activeSessions[x]] = pause(@)]
    /\ UNCHANGED <<activeSessions, taskQueue, activeBrowserCount, connOpen, clock>>

\* case 'resume_task'
ResumeTask(x) ==
    /\ connOpen
    /\ x \in DOMAIN activeSessions
    /\ tasks' = [tasks EXCEPT ![activeSessions[x]] = resume(@)]
    /\ UNCHANGED <<activeSessions, taskQueue, activeBrowserCount, connOpen, clock>>

\* stop_task that forgets the queue: no indexOf / splice
StopTaskKeepsQueue(x) ==
    /\ connOpen
    /\ x \in DOMAIN activeSessions
    /\ tasks' = [tasks EXCEPT ![activeSessions[x]] = stop(@)]
    /\ activeSessions' = [y \in DOMAIN activeSessions \ {x} |-> activeSessions[y]]
    /\ UNCHANGED <<taskQueue, activeBrowserCount, connOpen, clock>>

\* stop_task that empties the whole queue
StopTaskClearsQueue(x) ==
    /\ connOpen
    /\ x \in DOMAIN activeSessions
    /\ tasks' = [tasks EXCEPT ![activeSessions[x]] = stop(@)]
    /\ activeSessions' = [y \in DOMAIN activeSessions \ {x} |-> activeSessions[y]]
    /\ taskQueue' = <<>>
    /\ UNCHANGED <<activeBrowserCount, connOpen, clock>>

\* case 'stop_task'
StopTask(x) ==
    /\ connOpen
    /\ x \in DOMAIN activeSessions
    /\ tasks' = [tasks EXCEPT ![activeSessions[x]] = stop(@)]
    /\ activeSessions' = [y \in DOMAIN activeSessions \ {x} |-> activeSessions[y]]
    /\ taskQueue' = Splice(taskQueue, activeSessions[x])
    /\ UNCHANGED <<activeBrowserCount, connOpen, clock>>

\* case 'stop_all'
StopAll ==
    /\ connOpen
    /\ tasks' = [o \in Objs |->
                   IF \E x \in DOMAIN activeSessions : activeSessions[x] = o
                   THEN stop(tasks[o]) ELSE tasks[o]]
    /\ activeSessions' = <<>>
    /\ taskQueue' = <<>>
    /\ activeBrowserCount' = 0
    /\ UNCHANGED <<connOpen, clock>>

\* an unmatched message that costs the client its connection
UnknownCommandCloses ==
    /\ connOpen
    /\ connOpen' = FALSE
    /\ UNCHANGED <<tasks, activeSessions, taskQueue, activeBrowserCount, clock>>

\* a message whose type no case of the switch matches: there is no default branch
UnknownCommand ==
    /\ connOpen
    /\ UNCHANGED <<tasks, activeSessions, taskQueue, activeBrowserCount, connOpen, clock>>

\* ------------------------------------------------- startScraping, by await
Min(a, b) == IF a <= b THEN a ELSE b
Ceil(a, b) == (a + b - 1) \div b
Range(f) == {f[k] : k \in DOMAIN f}

\* total pages from the first page's info and the options as the client sent them
TotalPages(parsedTotal, productCount, itemsPerPageOption, maxPages) ==
    LET totalResults == IF parsedTotal # 0 THEN parsedTotal ELSE productCount * 100
        itemsPerPage == IF itemsPerPageOption \in {0, Undefined}
                        THEN DefaultItemsPerPage ELSE itemsPerPageOption
    IN  IF totalResults = 0
        THEN (IF maxPages \notin {0, Undefined} THEN maxPages ELSE DefaultMaxPages)
        ELSE IF maxPages = 0
             THEN Ceil(totalResults, itemsPerPage)
             ELSE IF maxPages = Undefined
                  THEN NaN
                  ELSE Min(Ceil(totalResults, itemsPerPage), maxPages)

\* const savedFiles = await this.saveResults()  -- the call; its outcome is a later step
invokeSave(task, at) == [task EXCEPT !.trace = Append(@, "save"), !.pc = at]

\* catch (error): the error event, then finally { await this.cleanup() }
Fail(task) ==
    [cleanup(sendUpdate(task, "error")) EXCEPT !.pc = "closing", !.page = 0, !.i = 0,
                                               !.totalItems = 0, !.retries = 0]

\* catch (error): save whatever was collected, if anything
Catch(task) ==
    IF Len(task.products) > 0 THEN invokeSave(task, "catchsave") ELSE Fail(task)

\* extractProductDetails(): the for loop head, the skip test and waitIfPaused
RECURSIVE DetailsHead(_)
DetailsHead(task) ==
    IF task.i < task.totalItems /\ task.isRunning
    THEN IF task.isPaused
         THEN [task EXCEPT !.pc = "detailpause"]
         ELSE IF task.products[task.i + 1].ean # 0
              THEN DetailsHead([task EXCEPT !.i = @ + 1])
              ELSE [task EXCEPT !.pc = "visit"]
    ELSE invokeSave([task EXCEPT !.i = 0, !.totalItems = 0], "save")

\* after the page loop: optional enrichment pass, then saveResults
AfterLoop(task) ==
    IF task.options.extractEAN /\ Len(task.products) > 0
    THEN DetailsHead([task EXCEPT !.totalItems = Len(task.products), !.i = 0, !.page = 0])
    ELSE invokeSave([task EXCEPT !.page = 0], "save")

\* loop body up to the first await of an iteration
EnterPage(task) ==
    [task EXCEPT !.currentPage = task.page,
                 !.pc = IF task.page > 1 THEN "nav" ELSE "extract"]

\* for (page...; page <= this.totalPages && this.isRunning; ...) { await waitIfPaused()
LoopHead(task) ==
    IF task.totalPages # NaN /\ task.page <= task.totalPages /\ task.isRunning
    THEN IF task.isPaused THEN [task EXCEPT !.pc = "pausewait"] ELSE EnterPage(task)
    ELSE AfterLoop(task)

\* filter duplicates, append, progress event, empty-page tracking
ProcessPage(task, products) ==
    LET dedupe == task.options.removeDuplicates
        newProducts == IF dedupe
                       THEN SelectSeq(products, LAMBDA p : p \notin task.seenItems)
                       ELSE products
        t1 == [task EXCEPT
                 !.landed = "none",
                 !.seenItems = IF dedupe THEN @ \cup Range(products) ELSE @,
                 !.products = @ \o [k \in 1..Len(newProducts) |->
                                      [item |-> newProducts[k], ean |-> 0]]]
        t2 == sendUpdate(t1, "progress")
    IN  IF Len(products) = 0
        THEN LET t3 == [t2 EXCEPT !.emptyPageCount = @ + 1]
             IN  IF \/ t3.emptyPageCount >= EmptyPageLimit
                    \/ t3.totalPages # NaN /\ t3.page >= t3.totalPages
                 THEN AfterLoop(t3)
                 ELSE [t3 EXCEPT !.pc = "delay"]
        ELSE LoopHead([t2 EXCEPT !.emptyPageCount = 0, !.page = @ + 1])

\* the tab shows a challenge page
Blocked == {"blockedUrl", "blockedTitle"}

\* the wait computed at a detection signal; waits lists the waits computed
\* since the task last saw a page that was not blocked
ShrinkingWait(task) == BotDetectWait - 30000 * Len(task.waits)
DetectionWait(task) == BotDetectWait

\* handleRateLimit(): waitTime (s) from this.retryCount; no caller
handleRateLimitWait(retryCount) == 60 + retryCount * 30

\* an operation on the browser fails once the browser was closed
Effective(task, outcome, failure) ==
    IF task.browser = "open" THEN outcome ELSE failure

\* the task as a controller step finds it
At(o) == Begin(tasks[o])

Step(o, task) ==
    /\ tasks' = [tasks EXCEPT ![o] = task]
    /\ UNCHANGED <<activeSessions, taskQueue, activeBrowserCount, connOpen, clock, msgs,
                   scraper>>

\* await this.init()
InitStep(o, ok) ==
    /\ tasks[o].pc = "init"
    /\ Step(o, IF ok
               THEN sendUpdate([At(o) EXCEPT !.browser = "open", !.pc = "first",
                                                !.retries = FirstPageRetries],
                               "loading_first_page")
               ELSE Catch(At(o)))

\* load first page (with retry), page info, total pages
FirstPage(o, ok, parsedTotal, productCount) ==
    /\ tasks[o].pc = "first"
    /\ LET t == At(o)
           total == TotalPages(parsedTotal, productCount, t.options.itemsPerPage,
                               t.options.maxPages)
       IN  /\ Step(o, IF Effective(t, ok, FALSE)
                      THEN LoopHead(sendUpdate(
                               [t EXCEPT !.totalPages = total, !.page = 1, !.retries = 0,
                                         !.pageInfo = [totalResults |-> parsedTotal,
                                                       productCount |-> productCount]],
                               "scraping"))
                      ELSE IF t.retries = 1
                           THEN Catch([t EXCEPT !.retries = 0])
                           ELSE sendUpdate([t EXCEPT !.retries = @ - 1], "retrying"))

\* a waitIfPaused() that returns although the task is paused
PauseWaitIgnoresPause(o) ==
    /\ tasks[o].pc = "pausewait"
    /\ Step(o, EnterPage(At(o)))

\* a waitIfPaused() that only a resume ends
PauseWaitUntilResumed(o) ==
    /\ tasks[o].pc = "pausewait"
    /\ ~tasks[o].isPaused
    /\ Step(o, EnterPage(At(o)))

\* waitIfPaused() returning inside the page loop
PauseWait(o) ==
    /\ tasks[o].pc = "pausewait"
    /\ ~(tasks[o].isPaused /\ tasks[o].isRunning)
    /\ Step(o, EnterPage(At(o)))

\* page.goto(pageUrl) for page > 1, then the bot-detection test
Nav(o, outcome) ==
    /\ tasks[o].pc = "nav"
    /\ LET t == At(o)
           e == Effective(t, outcome, "throw")
       IN  Step(o, CASE e = "ok" -> [t EXCEPT !.pc = "extract", !.landed = e, !.waits = <<>>]
                     [] e \in Blocked ->
                            sendUpdate([t EXCEPT !.pc = "backoff", !.landed = e,
                                                 !.waits = Append(@, DetectionWait(t))],
                                       "paused")
                     [] OTHER -> [t EXCEPT !.pc = "navretry", !.landed = "failed"])

\* after the 2 minute wait: navigate again, test the URL only
Backoff(o, outcome) ==
    /\ tasks[o].pc = "backoff"
    /\ LET t == At(o)
           e == Effective(t, outcome, "throw")
       IN  Step(o, CASE e = "blockedUrl" ->
                            AfterLoop(sendUpdate([t EXCEPT !.landed = e], "stopped"))
                     [] e = "throw" -> [t EXCEPT !.pc = "navretry", !.landed = "failed"]
                     [] OTHER -> [t EXCEPT !.pc = "extract", !.landed = e,
                                           !.waits = IF e = "ok" THEN <<>> ELSE @])

\* catch (navError) that gives the task up when the retry fails too
NavRetryAborts(o, outcome) ==
    /\ tasks[o].pc = "navretry"
    /\ LET t == At(o)
           e == Effective(t, outcome, "throw")
       IN  Step(o, IF e = "throw"
                   THEN Catch(t)
                   ELSE [t EXCEPT !.pc = "extract", !.landed = e,
                                  !.waits = IF e = "ok" THEN <<>> ELSE @])

\* catch (navError): retry once, else skip the page
NavRetry(o, outcome) ==
    /\ tasks[o].pc = "navretry"
    /\ LET t == At(o)
           e == Effective(t, outcome, "throw")
       IN  Step(o, IF e = "throw"
                   THEN LoopHead([t EXCEPT !.page = @ + 1])
                   ELSE [t EXCEPT !.pc = "extract", !.landed = e,
                                  !.waits = IF e = "ok" THEN <<>> ELSE @])

\* await this.extractProducts(page) and the rest of the iteration;
\* ~ok: page.evaluate rejects
Extract(o, ok, products) ==
    /\ tasks[o].pc = "extract"
    /\ tasks[o].landed \in Blocked => products = <<>>   \* a challenge page lists no item
    /\ LET t == At(o)
       IN  Step(o, IF Effective(t, ok, FALSE) THEN ProcessPage(t, products) ELSE Catch(t))

\* the 5 s delay after an empty page, then continue
EmptyDelay(o) ==
    /\ tasks[o].pc = "delay"
    /\ Step(o, LoopHead([At(o) EXCEPT !.page = @ + 1]))

\* waitIfPaused() returning inside extractProductDetails
DetailPauseWait(o) ==
    /\ tasks[o].pc = "detailpause"
    /\ ~(tasks[o].isPaused /\ tasks[o].isRunning)
    /\ LET t == At(o)
       IN  Step(o, IF t.products[t.i + 1].ean # 0
                   THEN DetailsHead([t EXCEPT !.i = @ + 1])
                   ELSE [t EXCEPT !.pc = "visit"])

\* one detail visit: delay, newPage, goto, evaluate, update in place
Visit(o, outcome) ==
    /\ tasks[o].pc = "visit"
    /\ outcome \in {"error", "crash"} \/ tasks[o].browser = "open"
    /\ LET t0 == At(o)
           t == IF t0.i % 5 = 0 THEN sendUpdate(t0, "extracting") ELSE t0
       IN  Step(o, CASE outcome = "found" ->
                            DetailsHead([t EXCEPT !.products[t.i + 1].ean = 1, !.i = @ + 1])
                     [] outcome = "crash" ->
                            invokeSave([t EXCEPT !.i = 0, !.totalItems = 0], "save")
                     [] OTHER -> DetailsHead([t EXCEPT !.i = @ + 1]))

\* saveResults() settles in the try block: files_saved, complete, finally
SaveStep(o, ok) ==
    /\ tasks[o].pc = "save"
    /\ LET t == At(o)
       IN  Step(o, IF ok
                   THEN [cleanup(sendUpdate(sendUpdate(t, "files_saved"), "complete"))
                            EXCEPT !.pc = "closing"]
                   ELSE Catch(t))

\* saveResults() settles in the catch block: complete (with error), then error
CatchSave(o, ok) ==
    /\ tasks[o].pc = "catchsave"
    /\ LET t == At(o)
       IN  Step(o, IF ok
                   THEN Fail(sendUpdate(sendUpdate(t, "files_saved"), "complete"))
                   ELSE Fail(t))

\* startScraping() settles: .finally(() => { activeBrowserCount--; processTaskQueue() })
Finish(o) ==
    /\ tasks[o].pc = "closing"
    /\ LET r == processTaskQueue([tasks EXCEPT ![o] = [At(o) EXCEPT !.pc = "done"]], taskQueue,
                                 activeBrowserCount - 1)
       IN  /\ tasks' = r.tasks
           /\ taskQueue' = r.taskQueue
           /\ activeBrowserCount' = r.activeBrowserCount
    /\ UNCHANGED <<activeSessions, connOpen, clock, msgs, scraper>>

\* ---------------------------------------------------------- next state
\* An inbound message or connection event; the specification receives c.msgs
\* of them.
Message(c, A) ==
    /\ msgs.handled + msgs.ignored < c.msgs
    /\ msgs' = [msgs EXCEPT !.handled = @ + 1]
    /\ UNCHANGED scraper
    /\ A

\* An inbound message that no case of the switch matches.
Unmatched(c, A) ==
    /\ msgs.handled + msgs.ignored < c.msgs
    /\ msgs' = [msgs EXCEPT !.ignored = @ + 1]
    /\ UNCHANGED scraper
    /\ A

\* The inputs a specification draws from: c.tasks objects, c.msgs messages,
\* first pages yielding at most c.pages pages, and the sets the outcomes of the
\* browser, the extractor and the export writer are taken from.
NextOf(c) ==
    \/ Message(c, Connect)
    \/ Message(c, Close)
    \/ \E n \in 1..(c.tasks - Len(tasks)), options \in c.options,
          now \in {clock, clock + 1} :
          \E bad \in {0} \cup (IF c.badUrls THEN 1..n ELSE {}) :
             Message(c, StartMulti(n, bad, options, now))
    \/ Message(c, Reconnect)
    \/ \E x \in DOMAIN activeSessions : Message(c, PauseTask(x))
    \/ \E x \in DOMAIN activeSessions : Message(c, ResumeTask(x))
    \/ \E x \in DOMAIN activeSessions : Message(c, StopTask(x))
    \/ Message(c, StopAll)
    \/ Unmatched(c, UnknownCommand)
    \/ \E o \in Objs, ok \in c.launch : InitStep(o, ok)
    \/ \E o \in Objs, ok \in c.first, tr \in c.totals, n \in c.counts :
          /\ TotalPages(tr, n, tasks[o].options.itemsPerPage,
                        tasks[o].options.maxPages) <= c.pages
          /\ FirstPage(o, ok, tr, n)
    \/ \E o \in Objs : PauseWait(o)
    \/ \E o \in Objs, outcome \in c.nav : Nav(o, outcome)
    \/ \E o \in Objs, outcome \in c.nav : Backoff(o, outcome)
    \/ \E o \in Objs, outcome \in c.nav : NavRetry(o, outcome)
    \/ \E o \in Objs, ok \in c.extract, products \in c.results : Extract(o, ok, products)
    \/ \E o \in Objs : EmptyDelay(o)
    \/ \E o \in Objs : DetailPauseWait(o)
    \/ \E o \in Objs, outcome \in c.details : Visit(o, outcome)
    \/ \E o \in Objs, ok \in c.saves : SaveStep(o, ok)
    \/ \E o \in Objs, ok \in c.saves : CatchSave(o, ok)
    \/ \E o \in Objs : Finish(o)

\* The steps of task o's controller: the continuation of each await of
\* startScraping(), and the .finally callback of processTaskQueue().
Controller(c, o) ==
    /\ o \in Objs
    /\ \/ \E ok \in c.launch : InitStep(o, ok)
       \/ \E ok \in c.first, tr \in c.totals, n \in c.counts :
             /\ TotalPages(tr, n, tasks[o].options.itemsPerPage,
                           tasks[o].options.maxPages) <= c.pages
             /\ FirstPage(o, ok, tr, n)
       \/ PauseWait(o)
       \/ \E outcome \in c.nav : Nav(o, outcome)
       \/ \E outcome \in c.nav : Backoff(o, outcome)
       \/ \E outcome \in c.nav : NavRetry(o, outcome)
       \/ \E ok \in c.extract, products \in c.results : Extract(o, ok, products)
       \/ EmptyDelay(o)
       \/ DetailPauseWait(o)
       \/ \E outcome \in c.details : Visit(o, outcome)
       \/ \E ok \in c.saves : SaveStep(o, ok)
       \/ \E ok \in c.saves : CatchSave(o, ok)
       \/ Finish(o)

\* Several tasks against a target that answers: failures come from the client
\* (stop, disconnect) closing the browser under a running controller.
SchedInputs ==
    [ tasks |-> MaxTasks, msgs |-> MaxMessages, pages |-> MaxPages,
      options |-> {[removeDuplicates |-> TRUE, extractEAN |-> TRUE, maxPages |-> 0,
                    itemsPerPage |-> 0]},
      launch |-> {TRUE}, first |-> {TRUE}, totals |-> {61}, counts |-> {1},
      nav |-> {"ok", "blockedUrl"}, extract |-> {TRUE}, results |-> {<<>>, <<1>>},
      details |-> {"found"}, saves |-> {TRUE}, badUrls |-> FALSE ]

\* One task, every option and every outcome.
TaskInputs ==
    [ tasks |-> 1, msgs |-> TaskMessages, pages |-> TaskPages,
      options |-> OptionSet, launch |-> BOOLEAN, first |-> BOOLEAN,
      totals |-> TotalResultsSet, counts |-> ProductCountSet,
      nav |-> NavOutcomes, extract |-> BOOLEAN, results |-> PageResults,
      details |-> DetailOutcomes, saves |-> BOOLEAN, badUrls |-> FALSE ]

Next == NextOf(SchedInputs)
Spec == Init /\ [][Next]_vars

NextTask == NextOf(TaskInputs)
SpecTask == Init /\ [][NextTask]_vars

\* One task left alone by the client, against a target that answers every
\* navigation: the first page's info and the options range widely, and page n
\* lists item n or, in listings of at most EmptyRunPages pages, nothing.
PagesInputs == [msgs |-> 1]
PageListing(task) ==
    IF task.totalPages # NaN /\ task.totalPages <= EmptyRunPages
    THEN {<<>>, <<task.page>>}
    ELSE {<<task.page>>}

NextPages ==
    \/ \E options \in PagesOptions : Message(PagesInputs, StartMulti(1, 0, options, clock))
    \/ \E o \in Objs : InitStep(o, TRUE)
    \/ \E o \in Objs, tr \in PagesTotals, n \in PagesCounts : FirstPage(o, TRUE, tr, n)
    \/ \E o \in Objs : Nav(o, "ok")
    \/ \E o \in Objs : \E products \in PageListing(tasks[o]) : Extract(o, TRUE, products)
    \/ \E o \in Objs : EmptyDelay(o)
    \/ \E o \in Objs : SaveStep(o, TRUE)
    \/ \E o \in Objs : Finish(o)
SpecPages == Init /\ [][NextPages]_vars

\* Batches in which an accepted line may fail to parse as a URL, against a
\* target that answers; a detail visit fails when the client has closed the
\* browser under it.
BatchInputs ==
    [ tasks |-> BatchTasks, msgs |-> BatchMessages, pages |-> BatchPages,
      options |-> {[removeDuplicates |-> TRUE, extractEAN |-> TRUE, maxPages |-> 0,
                    itemsPerPage |-> 0]},
      launch |-> {TRUE}, first |-> {TRUE}, totals |-> {61}, counts |-> {1},
      nav |-> {"ok", "blockedUrl"}, extract |-> {TRUE}, results |-> {<<>>, <<1>>},
      details |-> {"found", "error", "crash"}, saves |-> {TRUE}, badUrls |-> TRUE ]

NextBatch == NextOf(BatchInputs)
SpecBatch == Init /\ [][NextBatch]_vars

\* The event loop runs the continuation of every await that has settled, and
\* every await of the controller settles (navigations time out, timers fire).
SpecBatchFair ==
    SpecBatch /\ \A o \in 1..BatchTasks : WF_vars(Controller(BatchInputs, o))

\* One task, every option and every outcome, under the same scheduling.
FairInputs == [TaskInputs EXCEPT !.pages = FairPages]
NextFair == NextOf(FairInputs)
SpecTaskFair == Init /\ [][NextFair]_vars /\ WF_vars(Controller(FairInputs, 1))

\* ------------------------------------------------ node_scraper.js
\* a filter that compares with the items of earlier pages only
FilterAgainstEarlierPages(products, seen) ==
    [new |-> [k \in 1..Len(SelectSeq(products, LAMBDA p : p \notin seen)) |->
                [item |-> SelectSeq(products, LAMBDA p : p \notin seen)[k], ean |-> 0]],
     seen |-> seen \cup Range(products)]

\* scrapeUrl(): the loop over a page's products that keeps those whose
\* Ebay_Item_Number is not in seenItems, adding each number as it is kept
RECURSIVE FilterNew(_, _)
FilterNew(products, seen) ==
    IF products = <<>>
    THEN [new |-> <<>>, seen |-> seen]
    ELSE IF Head(products) \in seen
         THEN FilterNew(Tail(products), seen)
         ELSE LET r == FilterNew(Tail(products), seen \cup {Head(products)})
              IN  [new |-> <<[item |-> Head(products), ean |-> 0]>> \o r.new,
                   seen |-> r.seen]

NodeStep(s) == scraper' = s /\ UNCHANGED server

\* a throw inside scrapeUrl(): the call rejects
Reject(s) == [s EXCEPT !.pc = "idle", !.newProducts = <<>>, !.i = 0]

\* scrapeUrl(url, options) up to its first page.goto
scrapeUrl(maxPages, withEAN) ==
    /\ scraper.pc = "idle"
    /\ scraper.calls < NodeCalls
    /\ NodeStep([scraper EXCEPT !.pc = "goto", !.currentPage = 1, !.maxPages = maxPages,
                                !.extractEAN = withEAN, !.calls = @ + 1])

\* this.page.goto(...) of the first or a later page settles
GotoPage(ok) ==
    /\ scraper.pc = "goto"
    /\ NodeStep(IF ok THEN [scraper EXCEPT !.pc = "extract"] ELSE Reject(scraper))

\* this.allProducts.push(...newProducts), then the test for a next page
PushNew(s) ==
    [s EXCEPT !.allProducts = @ \o s.newProducts, !.newProducts = <<>>, !.i = 0,
              !.pc = "next"]

\* extractProductsFromPage() settles, the duplicate filter runs
extractProductsFromPage(ok, products) ==
    /\ scraper.pc = "extract"
    /\ LET r == FilterNew(products, scraper.seenItems)
           s == [scraper EXCEPT !.seenItems = r.seen, !.newProducts = r.new,
                                !.pageProducts = Len(products),
                                !.repeated = @ \/ \E j, k \in DOMAIN products :
                                                     j # k /\ products[j] = products[k]]
       IN  NodeStep(IF ~ok THEN Reject(scraper)
                    ELSE IF s.extractEAN /\ Len(r.new) > 0
                         THEN [s EXCEPT !.pc = "ean", !.i = 0]
                         ELSE PushNew(s))

\* extractEAN(newProducts[i].URL) settles: the EAN, or '' when it failed
extractEAN(found) ==
    /\ scraper.pc = "ean"
    /\ LET s == [scraper EXCEPT !.newProducts[scraper.i + 1].ean = IF found THEN 1 ELSE 0,
                                !.i = @ + 1]
       IN  NodeStep(IF s.i < Min(5, Len(s.newProducts)) THEN s ELSE PushNew(s))

\* the evaluate that looks for a next-page link settles; the loop test
HasNextPage(ok, hasNextPage) ==
    /\ scraper.pc = "next"
    /\ NodeStep(IF ~ok THEN Reject(scraper)
                ELSE IF ~hasNextPage \/ scraper.pageProducts = 0
                          \/ scraper.currentPage + 1 > scraper.maxPages
                     THEN [scraper EXCEPT !.pc = "idle"]
                     ELSE [scraper EXCEPT !.pc = "goto", !.currentPage = @ + 1])

\* The stand-alone scraper: calls of scrapeUrl one after the other on one
\* instance, each page listing drawn from NodeListings.
NextNode ==
    \/ \E maxPages \in 1..NodePages, withEAN \in BOOLEAN : scrapeUrl(maxPages, withEAN)
    \/ \E ok \in BOOLEAN : GotoPage(ok)
    \/ \E ok \in BOOLEAN, products \in NodeListings : extractProductsFromPage(ok, products)
    \/ \E found \in BOOLEAN : extractEAN(found)
    \/ \E ok \in BOOLEAN, hasNextPage \in BOOLEAN : HasNextPage(ok, hasNextPage)
SpecNode == Init /\ [][NextNode]_vars

\* ------------------------------------------------------------- claims
\* startScraping() of the task has begun and has not settled
InFlight(task) == task.pc \notin {"queued", "done"}
NumInFlight == Cardinality({o \in Objs : InFlight(tasks[o])})
Count(seq, e) == Cardinality({k \in DOMAIN seq : seq[k] = e})
Emitted(task, e) == \E k \in DOMAIN task.trace : task.trace[k] = e
TerminalOutcomes == {"complete", "error", "stopped"}

\* C1: the number of ScraperTask sessions whose startScraping is in flight never
\* exceeds MAX_CONCURRENT_BROWSERS.
C1_InFlightWithinCap == NumInFlight <= MAX_CONCURRENT_BROWSERS

\* C2: queued tasks wait in submission order behind every task already started,
\* and while tasks wait in the queue exactly one task is running.
C2_FifoOneRunning ==
    /\ \A i, j \in 1..Len(taskQueue) : i < j => taskQueue[i] < taskQueue[j]
    /\ \A k \in 1..Len(taskQueue), o \in Objs :
          tasks[o].pc # "queued" => o < taskQueue[k]
    /\ Len(taskQueue) > 0 => NumInFlight = 1

\* C3: with removeDuplicates, no two records of a finished task share an
\* Ebay_Item_Number.
C3_NoDuplicateIds ==
    \A o \in Objs :
        tasks[o].pc = "done" /\ tasks[o].options.removeDuplicates =>
            \A i, j \in 1..Len(tasks[o].products) :
                i # j => tasks[o].products[i].item # tasks[o].products[j].item

\* C4: a task emits at most one terminal outcome among complete, error and
\* status stopped.
C4_OneTerminalOutcome ==
    \A o \in Objs :
        Cardinality({k \in DOMAIN tasks[o].trace :
                        tasks[o].trace[k] \in TerminalOutcomes}) <= 1

\* C5: once a task has emitted a terminal outcome, its record list and the
\* state getState reports never change again.
C5_TerminalFrozen ==
    [][\A o \in Objs :
          (\E e \in TerminalOutcomes : Emitted(tasks[o], e)) =>
              /\ getState(tasks'[o]) = getState(tasks[o])
              /\ tasks'[o].products = tasks[o].products]_vars

\* C6: every complete or error event of a task is preceded by a call of
\* saveResults, and every complete event by a files_saved event.
C6_SavedBeforeTerminal ==
    \A o \in Objs : \A k \in DOMAIN tasks[o].trace :
        /\ tasks[o].trace[k] \in {"complete", "error"} =>
              \E j \in 1..(k - 1) : tasks[o].trace[j] = "save"
        /\ tasks[o].trace[k] = "complete" =>
              \E j \in 1..(k - 1) : tasks[o].trace[j] = "files_saved"

\* C7: a task that ended with a fatal error emitted exactly one error event and
\* made exactly one saveResults attempt.
C7_OneErrorOneSave ==
    \A o \in Objs :
        tasks[o].pc = "done" /\ Emitted(tasks[o], "error") =>
            /\ Count(tasks[o].trace, "error") = 1
            /\ Count(tasks[o].trace, "save") = 1

\* C8: a task stopped while it was still queued is no longer in the queue and
\* is never started.
StoppedWhileQueued(task) == task.pc = "queued" /\ Emitted(task, "stopped")
C8_StoppedQueuedNeverStarted ==
    /\ [](\A o \in Objs : StoppedWhileQueued(tasks[o]) => ~InQueue(taskQueue, o))
    /\ [][\A o \in Objs : StoppedWhileQueued(tasks[o]) => tasks'[o].pc = "queued"]_vars

\* C8 witness: a queued task was stopped on its own (an earlier task runs on,
\* never stopped), and a task submitted after it has been started.
C8_Witness ==
    \E o0, o, o2 \in Objs :
        /\ o0 < o /\ o < o2
        /\ tasks[o0].pc = "done" /\ ~Emitted(tasks[o0], "stopped")
        /\ StoppedWhileQueued(tasks[o])
        /\ InFlight(tasks[o2])

\* C9: right after stop_all the queue and the registry are empty and every task
\* that was running has its cancellation flag set (isRunning false).
C9_StopAllCancelsAll ==
    [][StopAll =>
          /\ taskQueue' = <<>>
          /\ activeSessions' = <<>>
          /\ \A o \in Objs : InFlight(tasks[o]) => ~tasks'[o].isRunning]_vars

\* C10: once stop has been issued for a task, the task starts no page navigation
\* (no goto of a new page, no goto after the backoff wait, no retry goto).
StartsNavigation(before, after) ==
    \/ before.pc # "nav" /\ after.pc = "nav"
    \/ before.pc = "backoff" /\ after.pc # "backoff"
    \/ before.pc = "navretry" /\ after.pc # "navretry"
C10_NoNavigationAfterStop ==
    [][\A o \in Objs :
          Emitted(tasks[o], "stopped") => ~StartsNavigation(tasks[o], tasks'[o])]_vars

\* the updates the latest step of the task sent
Sent(task, e) == \E k \in DOMAIN task.out : task.out[k] = e
\* the page loop of the task is over: enrichment pass, save or later
LoopOver(task) == task.pc \in {"visit", "detailpause", "save", "catchsave", "closing", "done"}

\* C11: when the navigation retried after the backoff wait still lands on a
\* blocked page (challenge or captcha URL, or interruption title), the task
\* sends status stopped, leaves the page loop and keeps its records.
C11_StillBlockedStops ==
    [][\A o \in Objs :
          /\ tasks[o].pc = "backoff"
          /\ tasks'[o].pc # "backoff"
          /\ tasks'[o].landed \in Blocked
          => /\ Sent(tasks'[o], "stopped")
             /\ LoopOver(tasks'[o])
             /\ tasks'[o].products = tasks[o].products]_vars

\* the page size the computation uses, and the least n with n * size >= total
PageSize(task) ==
    IF task.options.itemsPerPage > 0 THEN task.options.itemsPerPage ELSE DefaultItemsPerPage
PagesNeeded(total, size) == CHOOSE n \in 0..total : n * size >= total /\ (n - 1) * size < total

\* C12: once the first page gave a parseable total-result count, totalPages is
\* min(ceil(totalResults / pageSize), cap) when a cap is requested and
\* ceil(totalResults / pageSize) when none is (maxPages 0 or not given).
C12_TotalPagesFormula ==
    \A o \in Objs :
        LET t == tasks[o]
            needed == PagesNeeded(t.pageInfo.totalResults, PageSize(t))
        IN  t.pageInfo.totalResults > 0 =>
                t.totalPages = IF t.options.maxPages > 0 /\ t.options.maxPages < needed
                               THEN t.options.maxPages ELSE needed

\* C13: when the first page gave no parseable total-result count, totalPages is
\* a finite number of pages, the page iterations stay within it, and they never
\* exceed a requested positive cap.
C13_FiniteFallback ==
    \A o \in Objs :
        LET t == tasks[o]
        IN  t.totalPages # 0 /\ t.pageInfo.totalResults = 0 =>
                /\ t.totalPages \in Nat
                /\ t.currentPage <= t.totalPages
                /\ t.options.maxPages > 0 => t.currentPage <= t.options.maxPages

\* the task is inside its page loop
InLoop(task) == task.pc \in {"pausewait", "nav", "backoff", "navretry", "extract", "delay"}

\* C14: the page loop ends at the third consecutive empty page and attempts no
\* later page; before that it goes on; a non-empty page resets the counter; an
\* empty page adds no record, and the task completes with the records of the
\* pages before the empty run.
C14_EmptyPageThreshold ==
    /\ [](\A o \in Objs :
            LET t == tasks[o]
            IN  /\ InLoop(t) => t.emptyPageCount < 3
                /\ t.pc = "done" /\ t.emptyPageCount = 3 =>
                      /\ Emitted(t, "complete") /\ ~Emitted(t, "error")
                      /\ \A k \in DOMAIN t.products :
                            t.products[k].item <= t.currentPage - 3)
    /\ [][\A o \in Objs :
            LET t == tasks[o]
                u == tasks'[o]
            IN  t.pc = "extract" /\ u # t =>
                  IF Len(u.products) > Len(t.products)
                  THEN u.emptyPageCount = 0
                  ELSE /\ u.products = t.products
                       /\ u.emptyPageCount = t.emptyPageCount + 1
                       /\ u.emptyPageCount = 3 => LoopOver(u)
                       /\ u.emptyPageCount < 3 /\ t.page < t.totalPages =>
                             InLoop(u) /\ u.page = t.page]_vars

\* C14 witness: pages 1..5 listed an item each, pages 6..8 were empty, and the
\* task completed with five records although the listing has more pages.
C14_Witness ==
    \E o \in Objs :
        /\ tasks[o].pc = "done" /\ Emitted(tasks[o], "complete")
        /\ tasks[o].emptyPageCount = 3 /\ tasks[o].currentPage = 8
        /\ tasks[o].totalPages > 8
        /\ [k \in 1..Len(tasks[o].products) |-> tasks[o].products[k].item] = <<1, 2, 3, 4, 5>>

\* C15: a navigation that fails on a page is retried once; when the retry
\* fails too the page is skipped and the loop goes on with the next page index
\* (or ends, after the last page or a stop); the task keeps its records and
\* does not enter its fatal-error handler.
C15_NavFailureSkips ==
    [][\A o \in Objs :
          LET t == tasks[o]
              u == tasks'[o]
          IN  /\ t.pc \in {"nav", "backoff"} /\ u.pc # t.pc /\ u.landed = "failed"
                    => u.pc = "navretry" /\ u.page = t.page /\ u.products = t.products
              /\ t.pc = "navretry" /\ u.pc # "navretry" =>
                    /\ u.products = t.products
                    /\ ~Sent(u, "error")
                    /\ u.pc \notin {"catchsave", "closing"}
                    /\ IF u.landed = "failed"
                       THEN \/ InLoop(u) /\ u.page = t.page + 1
                            \/ LoopOver(u) /\ (t.page >= t.totalPages \/ ~t.isRunning)
                       ELSE u.pc = "extract" /\ u.page = t.page]_vars

\* C15 witness: page 2 was skipped after its navigation and the retry failed in
\* a live browser; the task, still running, navigates to page 3 with the
\* record of page 1.
C15_Witness ==
    \E o \in Objs :
        /\ tasks[o].pc = "nav" /\ tasks[o].page = 3 /\ tasks[o].landed = "failed"
        /\ tasks[o].isRunning /\ tasks[o].browser = "open"
        /\ Len(tasks[o].products) > 0

\* C16: a failure of the extractor on a loaded page does not fail the task: from
\* the extraction of a page the task never enters its fatal-error handler and
\* sends no error update.
C16_ExtractorFailureTolerated ==
    [][\A o \in Objs :
          tasks[o].pc = "extract" =>
              /\ tasks'[o].pc \notin {"catchsave", "closing"}
              /\ ~(tasks'[o].pc # "extract" /\ Sent(tasks'[o], "error"))]_vars

\* C17: the step in which a task absorbs a failure sends an update: when the
\* retried navigation fails and the page is skipped, some update goes out.
C17_FailureHasEvent ==
    [][\A o \in Objs :
          /\ tasks[o].pc = "navretry"
          /\ tasks'[o].pc # "navretry"
          /\ tasks'[o].landed = "failed"
          => tasks'[o].out # <<>>]_vars

\* what a reconnect reports: getState() of every registered task
Snapshot == [x \in DOMAIN activeSessions |-> getState(tasks[activeSessions[x]])]

\* C18: a reconnect leaves the snapshot it reports as it was, so a second
\* reconnect right after it reports the same; it changes no task's state or
\* records, nor the registry, the queue or the active-session counter.
C18_ReconnectIdempotent ==
    [][Reconnect =>
          /\ Snapshot' = Snapshot
          /\ \A o \in Objs : /\ getState(tasks'[o]) = getState(tasks[o])
                             /\ tasks'[o].products = tasks[o].products
                             /\ tasks'[o].pc = tasks[o].pc
          /\ Len(tasks') = Len(tasks)
          /\ activeSessions' = activeSessions
          /\ taskQueue' = taskQueue
          /\ activeBrowserCount' = activeBrowserCount]_vars

\* C18 witness: a reconnect has just been answered for a running task that
\* holds records and for a task that waits in the queue.
C18_Witness ==
    \E o1, o2 \in Objs :
        /\ tasks[o1].out = <<"reconnected">> /\ tasks[o2].out = <<"reconnected">>
        /\ tasks[o1].isRunning /\ Len(tasks[o1].products) > 0
        /\ tasks[o2].pc = "queued" /\ InQueue(taskQueue, o2)
        /\ activeBrowserCount = 1

\* C19: the step that receives a message of an unrecognized type changes no
\* task (so no update is sent), nor the registry, the queue or the
\* active-session counter, and leaves the connection open for later commands.
C19_UnknownIgnored ==
    [][msgs'.ignored # msgs.ignored =>
          /\ tasks' = tasks
          /\ activeSessions' = activeSessions
          /\ taskQueue' = taskQueue
          /\ activeBrowserCount' = activeBrowserCount
          /\ connOpen /\ connOpen']_vars

\* C19 witness: an unrecognized message was received on a connection over
\* which a pause command has just been handled for a running task, while
\* another task waits in the queue.
C19_Witness ==
    /\ msgs.ignored = 1 /\ msgs.handled = 2 /\ connOpen
    /\ \E o1, o2 \in Objs :
          /\ tasks[o1].isRunning /\ tasks[o1].isPaused /\ tasks[o1].out = <<"paused">>
          /\ tasks[o2].pc = "queued" /\ InQueue(taskQueue, o2)

\* C20: the waits a task computes at consecutive detection signals, with no
\* page that was not blocked in between, never decrease; nor does the wait
\* handleRateLimit computes from one retryCount to the next.
C20_BackoffMonotonic ==
    /\ \A o \in Objs : \A i, j \in DOMAIN tasks[o].waits :
            i < j => tasks[o].waits[i] <= tasks[o].waits[j]
    /\ \A n \in 0..(MaxRetryCount - 1) :
            handleRateLimitWait(n) <= handleRateLimitWait(n + 1)

\* C20 witness: page 2 gave a detection signal, its retry after the wait still
\* showed the interruption title, and page 3 gave the next signal.
C20_Witness ==
    \E o \in Objs :
        /\ tasks[o].pc = "backoff" /\ tasks[o].page = 3
        /\ Len(tasks[o].waits) = 2 /\ tasks[o].isRunning /\ tasks[o].browser = "open"

\* C21: retryCount counts the detection signals a task has seen since its last
\* page that was not blocked: it goes up by one at every signal and back to zero
\* at a Clear result.
C21_RetryCountTracksSignals ==
    \A o \in Objs : tasks[o].retryCount = Len(tasks[o].waits)

\* C22: the close of the client connection cancels no task and releases no
\* browser: every task keeps its isRunning flag and its browser.
C22_DisconnectKeepsTasks ==
    [][connOpen /\ ~connOpen' =>
          \A o \in Objs : /\ tasks'[o].isRunning = tasks[o].isRunning
                         /\ tasks'[o].browser = tasks[o].browser]_vars

\* C23: no two tasks ever constructed carry the same id, so that registering a
\* task replaces no other task in activeSessions.
C23_UniqueIds ==
    \A o1, o2 \in Objs : o1 # o2 => tasks[o1].id # tasks[o2].id

\* a record after the one being visited still misses its EAN
LaterRecordMissing(task) ==
    \E k \in (task.i + 2)..task.totalItems : task.products[k].ean = 0

\* C24: a detail visit that ends, however it ends, is followed by the visit of
\* the next record that still misses a requested field, as long as the task is
\* running: the enrichment pass is not left while such a record remains.
C24_EnrichmentGoesOn ==
    [][\A o \in Objs :
          /\ tasks[o].pc = "visit"
          /\ tasks[o].isRunning
          /\ LaterRecordMissing(tasks[o])
          => tasks'[o].pc \in {"visit", "detailpause"}]_vars

\* C25: pause_task, resume_task or stop_task addressed to one task leaves every
\* other task as it was (state, records, seen keys, page cursor), keeps the
\* other tasks' registry entries and their order in the queue, and does not
\* touch the active-session counter.
C25_TasksIndependent ==
    [][\A x \in DOMAIN activeSessions :
          PauseTask(x) \/ ResumeTask(x) \/ StopTask(x) =>
              LET target == activeSessions[x]
              IN  /\ \A o \in Objs \ {target} : tasks'[o] = tasks[o]
                  /\ Len(tasks') = Len(tasks)
                  /\ Splice(taskQueue', target) = Splice(taskQueue, target)
                  /\ \A y \in DOMAIN activeSessions \ {x} :
                        y \in DOMAIN activeSessions' /\ activeSessions'[y] = activeSessions[y]
                  /\ activeBrowserCount' = activeBrowserCount]_vars

\* C25 witness: of three tasks the second was stopped in the queue; the first
\* runs on with its record and the third is still queued.
C25_Witness ==
    \E o1, o2, o3 \in Objs :
        /\ o1 < o2 /\ o2 < o3
        /\ tasks[o1].isRunning /\ Len(tasks[o1].products) > 0
        /\ tasks[o2].out = <<"stopped">> /\ tasks[o2].pc = "queued"
        /\ tasks[o3].pc = "queued" /\ taskQueue = <<o3>>
        /\ tasks[o3].out = <<"queued">>

\* C26: extractProducts never runs on a page that is blocked (challenge or
\* captcha URL, or interruption title): no task is about to extract from a tab
\* that shows such a page.
C26_NoExtractionFromBlocked ==
    \A o \in Objs : tasks[o].pc = "extract" => tasks[o].landed \notin Blocked

\* the task is paused: isPaused is set and the task has not been cancelled
Paused(task) == task.isPaused /\ task.isRunning

\* C27: while a task is paused it begins no page iteration and no detail visit;
\* when its wait ends it goes on with the page it was about to process (with the
\* first record, from the one it was about to visit, that still misses its
\* EAN); the page index only ever advances by one; and the pause command itself
\* ends nothing: flag, position, browser and logged outcomes stay.
C27_PauseResume ==
    [][\A o \in Objs :
          LET t == tasks[o]
              u == tasks'[o]
          IN  /\ Paused(t) =>
                    /\ u.currentPage = t.currentPage
                    /\ u.pc = "visit" => t.pc = "visit" /\ u.i = t.i
              /\ t.pc = "pausewait" /\ u.pc # "pausewait" =>
                    /\ ~Paused(t)
                    /\ u.pc \in {"nav", "extract"}
                    /\ u.page = t.page /\ u.currentPage = t.page
              /\ t.pc = "detailpause" /\ u.pc = "visit" =>
                    /\ ~Paused(t)
                    /\ u.i >= t.i
                    /\ \A k \in (t.i + 1)..u.i : t.products[k].ean # 0
              /\ u.currentPage \in {t.currentPage, t.currentPage + 1}
              /\ u.isPaused /\ ~t.isPaused =>
                    /\ u.isRunning = t.isRunning /\ u.pc = t.pc
                    /\ u.browser = t.browser /\ u.trace = t.trace
                    /\ u.products = t.products]_vars

\* C27 witness: a task that was paused while it worked on page 1 waited at the
\* head of the iteration of page 2 and has just been resumed there, running,
\* with the record of page 1.
C27_Witness ==
    \E o \in Objs :
        /\ tasks[o].pc = "pausewait" /\ tasks[o].page = 2 /\ tasks[o].currentPage = 1
        /\ tasks[o].out = <<"resumed">> /\ ~tasks[o].isPaused /\ tasks[o].isRunning
        /\ Len(tasks[o].products) > 0

\* the awaits of a task during which a navigation or an extraction is in flight
Navigating(task) == task.pc \in {"first", "nav", "backoff", "navretry", "extract", "visit"}

\* C28: a stop that reaches a task while a navigation or extraction of it is in
\* flight leaves the task's browser as it is.
C28_StopKeepsBrowser ==
    [][\A o \in Objs :
          /\ Navigating(tasks[o])
          /\ tasks'[o].pc = tasks[o].pc
          /\ Count(tasks'[o].trace, "stopped") > Count(tasks[o].trace, "stopped")
          => tasks'[o].browser = tasks[o].browser]_vars

\* the updates of type status, by the status they carry
StatusTypes == {"queued", "scraping", "loading_first_page", "retrying", "paused",
                "resumed", "stopped"}
StatusCount(task) == Cardinality({k \in DOMAIN task.out : task.out[k] \in StatusTypes})

\* C29: the step that takes a task through a transition sends exactly one status
\* update for it: admission (queued to running), pause, resume, stop by command,
\* entering the detection backoff, and recovery from it.
C29_OneStatusPerTransition ==
    [][\A o \in Objs :
          LET t == tasks[o]
              u == tasks'[o]
          IN  \/ t.pc = "queued" /\ u.pc = "init"
              \/ ~t.isPaused /\ u.isPaused
              \/ t.isPaused /\ ~u.isPaused
              \/ u.pc = t.pc /\ Count(u.trace, "stopped") > Count(t.trace, "stopped")
              \/ t.pc # "backoff" /\ u.pc = "backoff"
              \/ t.pc = "backoff" /\ u.pc = "extract"
              => StatusCount(u) = 1]_vars

\* C30: the step in which a task sees a detection signal and enters its backoff
\* wait sends a rate_limited update.
C30_RateLimitedEvent ==
    [][\A o \in Objs :
          tasks[o].pc # "backoff" /\ tasks'[o].pc = "backoff"
          => Sent(tasks'[o], "rate_limited")]_vars

\* C31: a task fails while acquiring its browser or loading the first page only
\* when the third attempt has failed, and it never has more than three attempts.
C31_FailsAfterThreeAttempts ==
    [][\A o \in Objs :
          LET t == tasks[o]
              u == tasks'[o]
          IN  /\ u.retries \in 0..FirstPageRetries
              /\ t.pc \in {"init", "first"}
                 /\ Count(u.trace, "error") > Count(t.trace, "error")
                 => t.pc = "first" /\ t.retries = 1]_vars

\* C33: activeBrowserCount equals the number of tasks whose startScraping() has
\* begun and has not settled, and is never negative.
C33_CounterCountsInFlight ==
    /\ activeBrowserCount = NumInFlight
    /\ activeBrowserCount >= 0

\* the task is in the registry
Registered(o) == \E x \in DOMAIN activeSessions : activeSessions[x] = o

\* C36: every task in the registry whose startScraping() has not been called
\* waits in the queue: start_multi leaves no task registered and never queued.
C36_RegisteredIsQueued ==
    \A o \in Objs : Registered(o) /\ tasks[o].pc = "queued" => InQueue(taskQueue, o)

Waiting(o) == o \in Objs /\ InQueue(taskQueue, o)
Running(o) == o \in Objs /\ InFlight(tasks[o])
Finished(o) == o \in Objs /\ tasks[o].pc = "done"

\* C34: if every running task eventually finishes, a task waiting in the queue
\* eventually leaves it: it is started, or a stop removes it.
C34_QueuedEventuallyStarted ==
    (\A o \in 1..BatchTasks : Running(o) ~> Finished(o))
    => (\A o \in 1..BatchTasks : Waiting(o) ~> ~Waiting(o))

\* C35: a task that has been started and is not paused for ever finishes:
\* startScraping() settles and the .finally callback has run. In particular a
\* stop ends the wait of a paused task.
C35_AdmittedFinishes ==
    \A o \in 1..BatchTasks :
       []<>~(o \in Objs /\ Paused(tasks[o])) => (Running(o) ~> Finished(o))

\* a task stopped during its pause before page 2 has finished
C35_Witness ==
    \E o \in Objs :
       /\ tasks[o].pc = "done" /\ tasks[o].isPaused /\ ~tasks[o].isRunning
       /\ Emitted(tasks[o], "stopped")
       /\ tasks[o].currentPage = 1 /\ tasks[o].totalPages = 2

\* the step is the continuation of extractProducts(), which sent a progress update
ProgressStep(t, u) == t.pc = "extract" /\ u.pc # "extract" /\ Sent(u, "progress")

C37_UniqueProducts ==
    /\ \A j, k \in DOMAIN scraper.allProducts :
          j # k => scraper.allProducts[j].item # scraper.allProducts[k].item
    /\ scraper.pc = "idle" => Len(scraper.allProducts) = Cardinality(scraper.seenItems)

\* two calls have returned, a page listed an item twice, an EAN lookup failed
C37_Witness ==
    /\ scraper.pc = "idle" /\ scraper.calls = NodeCalls
    /\ scraper.repeated /\ scraper.extractEAN
    /\ Len(scraper.allProducts) = 3
    /\ \E k \in DOMAIN scraper.allProducts : scraper.allProducts[k].ean = 0
    /\ \E k \in DOMAIN scraper.allProducts : scraper.allProducts[k].ean = 1

====
